---- MODULE Spec2Model ----
(***************************************************************************)
(* Model of cloud_cost_calculator/app.py: a Streamlit script that loads    *)
(* a rate table from a price sheet, collects a form, and on "Save me       *)
(* Money" validates the contact fields, computes the LekaLink cost and the *)
(* savings, shows a summary, renders a PDF quote, offers it for download   *)
(* and e-mails it to the sales team.                                       *)
(*                                                                         *)
(* Money is counted in cents and quantities in whole units, so the         *)
(* arithmetic of the script is modelled exactly (no float rounding).  A    *)
(* quotient is kept as a fraction [num, den]; den = 0 marks the            *)
(* ZeroDivisionError Python raises.                                        *)
(***************************************************************************)
EXTENDS Integers, Sequences, FiniteSets, TLC

\* ---- bounds of the model
MaxVms == 2
MaxStorage == 1
MaxBandwidth == 1
MaxCurrentCost == 3
MaxCsvRate == 2

\* ---- program constants (cents)
DEFAULT_VM_RATE == 86435
DEFAULT_STORAGE_RATE_PER_TB == 87040
DEFAULT_BANDWIDTH_RATE_PER_MBPS == 750
GB_PER_TB == 1024

\* ---- the price sheet as the loading block sees it
\* a 'Unit Monthly' cell after pd.to_numeric(errors='coerce'): a number, or
\* NaN for a non-numeric cell; a row that is not in the sheet is "missing"
CsvValues == (-1)..MaxCsvRate
Cell(v) == [kind |-> "num", val |-> v]
NaN == [kind |-> "nan", val |-> 0]
MissingRow == [kind |-> "missing", val |-> 0]
RowStates == {MissingRow, NaN} \cup {Cell(v) : v \in CsvValues}

SheetStatus == {"no_dir", "no_file", "parse_error", "no_unit_monthly", "no_description", "ok"}

RateSources ==
    {[status |-> s, vm_row |-> MissingRow, storage_row |-> MissingRow] :
        s \in SheetStatus \ {"ok"}}
    \cup {[status |-> "ok", vm_row |-> v, storage_row |-> t] :
        v \in RowStates, t \in RowStates}

\* not vm_row.empty and not pd.isna(vm_row['Unit Monthly'].iloc[0])
RowHasPrice(row) == row.kind = "num"

\* faulty variant: a missing VM row makes the storage rate fall back as well
LoadStorageRate_AllOrNothing(s) ==
    IF s.status = "ok" /\ RowHasPrice(s.storage_row) /\ RowHasPrice(s.vm_row)
    THEN s.storage_row.val * GB_PER_TB
    ELSE DEFAULT_STORAGE_RATE_PER_TB

\* VM_RATE after the loading block: every exception is raised before the
\* first assignment, so the rate keeps its default
LoadVmRate(s) ==
    IF s.status = "ok" /\ RowHasPrice(s.vm_row)
    THEN s.vm_row.val
    ELSE DEFAULT_VM_RATE

\* STORAGE_RATE_PER_TB after the loading block
LoadStorageRate(s) ==
    IF s.status = "ok" /\ RowHasPrice(s.storage_row)
    THEN s.storage_row.val * GB_PER_TB
    ELSE DEFAULT_STORAGE_RATE_PER_TB

\* what the loading block reports (st.error / print)
LoadWarnings(s) ==
    IF s.status = "no_dir" THEN {"assets directory not found"}
    ELSE IF s.status = "no_file" THEN {"price sheet not found"}
    ELSE IF s.status = "parse_error" THEN {"unexpected error"}
    ELSE IF s.status \in {"no_unit_monthly", "no_description"} THEN {"error reading column"}
    ELSE (IF RowHasPrice(s.vm_row) THEN {} ELSE {"default VM rate"})
         \cup (IF RowHasPrice(s.storage_row) THEN {} ELSE {"default Storage rate"})


\* ---- the form (st.number_input with min_value=0, st.text_input)
VmsValues == 0..MaxVms
StorageValues == 0..MaxStorage
BandwidthValues == 0..MaxBandwidth \cup {10}
CurrentCostValues == 0..MaxCurrentCost \cup {300000}
TextValues == {"", "x"}
Contacts ==
    [company_name : TextValues, contact_name : TextValues, job_title : TextValues,
     email : TextValues, phone : TextValues]
NoContact ==
    [company_name |-> "", contact_name |-> "", job_title |-> "", email |-> "", phone |-> ""]
FieldNames == {"company_name", "contact_name", "job_title", "email", "phone"}

RequiredMessage(f) ==
    CASE f = "company_name" -> "Company Name is required."
      [] f = "contact_name" -> "Contact Name is required."
      [] f = "job_title" -> "Job Title is required."
      [] f = "email" -> "Email is required."
      [] f = "phone" -> "Phone Number is required."

\* faulty variant: the gate reports every empty field instead of returning at the first
validate_inputs_ReportAll(c) ==
    [ok |-> \A f \in FieldNames : c[f] # "",
     errors |-> {RequiredMessage(f) : f \in {g \in FieldNames : c[g] = ""}}]

\* faulty variant: the gate forgets the phone number
validate_inputs_NoPhone(c) ==
    IF c.company_name = "" THEN [ok |-> FALSE, errors |-> {RequiredMessage("company_name")}]
    ELSE IF c.contact_name = "" THEN [ok |-> FALSE, errors |-> {RequiredMessage("contact_name")}]
    ELSE IF c.job_title = "" THEN [ok |-> FALSE, errors |-> {RequiredMessage("job_title")}]
    ELSE IF c.email = "" THEN [ok |-> FALSE, errors |-> {RequiredMessage("email")}]
    ELSE [ok |-> TRUE, errors |-> {}]

\* validate_inputs: the return value and the st.error messages it shows
validate_inputs(c) ==
    IF c.company_name = "" THEN [ok |-> FALSE, errors |-> {RequiredMessage("company_name")}]
    ELSE IF c.contact_name = "" THEN [ok |-> FALSE, errors |-> {RequiredMessage("contact_name")}]
    ELSE IF c.job_title = "" THEN [ok |-> FALSE, errors |-> {RequiredMessage("job_title")}]
    ELSE IF c.email = "" THEN [ok |-> FALSE, errors |-> {RequiredMessage("email")}]
    ELSE IF c.phone = "" THEN [ok |-> FALSE, errors |-> {RequiredMessage("phone")}]
    ELSE [ok |-> TRUE, errors |-> {}]

\* ---- the cost engine
\* a / b in Python: a fraction, or ZeroDivisionError (den = 0)
Divide(a, b) == [num |-> a, den |-> b]
Times(f, k) == [num |-> f.num * k, den |-> f.den]
Number(n) == [num |-> n, den |-> 1]
IsZeroDivisionError(f) == f.den = 0
Negate(f) == [num |-> 0 - f.num, den |-> f.den]

Sign(n) == IF n > 0 THEN 1 ELSE IF n < 0 THEN 0 - 1 ELSE 0
\* sign of a fraction whose denominator is positive
FracSign(f) == Sign(f.num)

\* faulty variant: the bandwidth term is left out of the sum
LekalinkCost_NoBandwidth(v, s, b, vr, sr, br) == (v * vr) + (s * sr)

\* (vms * VM_RATE) + (storage * STORAGE_RATE_PER_TB) + (bandwidth * BANDWIDTH_RATE_PER_MBPS)
LekalinkCost(v, s, b, vr, sr, br) == (v * vr) + (s * sr) + (b * br)

\* faulty variant: the savings are taken the other way round
MonthlySavings_Swapped(cc, lc) == lc - cc

\* current_cost - lekalink_cost
MonthlySavings(cc, lc) == cc - lc

\* faulty variant: the guard against a zero current cost is missing
PercentageSavings_NoGuard(ms, cc) == Times(Divide(ms, cc), 100)

\* (monthly_savings / current_cost * 100) if current_cost != 0 else 0
PercentageSavings(ms, cc) ==
    IF cc # 0 THEN Times(Divide(ms, cc), 100) ELSE Number(0)

\* the on-screen results card
Summary(lc, ms, pct) ==
    IF ms >= 0
    THEN [framing |-> "savings", cost |-> lc, amount |-> ms, percentage |-> pct]
    ELSE [framing |-> "increase", cost |-> lc, amount |-> 0 - ms, percentage |-> Negate(pct)]


\* ---- the quote renderer
\* the logo file: absent; readable; present but ImageReader/getSize raises
\* (before y_position_logo is assigned); present but drawImage raises (after)
LogoStates == {"absent", "readable", "unreadable", "undrawable"}
LogoExists(l) == l # "absent"
\* whether the local y_position_logo was assigned inside the try block
LogoPositionBound(l) == l \in {"readable", "undrawable"}

\* the page create_pdf draws from the quote data
PdfPage(d, l) ==
    [company_name |-> d.company_name, contact_name |-> d.contact_name,
     job_title |-> d.job_title, email |-> d.email, phone |-> d.phone,
     current_cost |-> d.current_cost,
     vm_line |-> d.vms * d.vm_rate,
     storage_line |-> d.storage * d.storage_rate_per_tb,
     bandwidth_line |-> d.bandwidth * d.bandwidth_rate_per_mbps,
     total |-> d.lekalink_cost,
     framing |-> IF d.monthly_savings >= 0 THEN "savings" ELSE "increase",
     amount |-> IF d.monthly_savings >= 0 THEN d.monthly_savings ELSE 0 - d.monthly_savings,
     percentage |-> IF d.monthly_savings >= 0 THEN d.percentage_savings
                    ELSE Negate(d.percentage_savings),
     logo |-> l = "readable"]

\* create_pdf: the bytes it returns, or the exception it raises.  The try
\* block around the logo absorbs every error, but the next statement reads
\* y_position_logo whenever the file exists, assigned or not.
create_pdf(d, l) ==
    IF LogoExists(l) /\ ~LogoPositionBound(l)
    THEN [raised |-> TRUE, pdf |-> <<>>, warnings |-> {"error loading logo"}]
    ELSE [raised |-> FALSE,
          pdf |-> <<PdfPage(d, l)>>,
          warnings |-> IF ~LogoExists(l) THEN {"logo not found"}
                       ELSE IF l = "readable" THEN {} ELSE {"error loading logo"}]

\* ---- the notifier
SmtpOutcomes ==
    {"ok", "build_fails", "connect_fails", "starttls_fails", "login_fails", "sendmail_fails"}

SALES_EMAIL == "adriennek@intellicomms.co.za"

\* faulty variant: the body picks its wording by the sign of the percentage
EmailBody_ByPercentage(c, cc, lc, ms, pct) ==
    [company_name |-> c.company_name, contact_name |-> c.contact_name,
     job_title |-> c.job_title, email |-> c.email, phone |-> c.phone,
     current_cost |-> cc, lekalink_cost |-> lc,
     framing |-> IF pct.num >= 0 THEN "savings" ELSE "increase",
     amount |-> IF pct.num >= 0 THEN ms ELSE 0 - ms,
     percentage |-> IF pct.num >= 0 THEN pct ELSE Negate(pct)]

\* the plain-text body the handler composes
EmailBody(c, cc, lc, ms, pct) ==
    [company_name |-> c.company_name, contact_name |-> c.contact_name,
     job_title |-> c.job_title, email |-> c.email, phone |-> c.phone,
     current_cost |-> cc, lekalink_cost |-> lc,
     framing |-> IF ms >= 0 THEN "savings" ELSE "increase",
     amount |-> IF ms >= 0 THEN ms ELSE 0 - ms,
     percentage |-> IF ms >= 0 THEN pct ELSE Negate(pct)]

\* the message handed to the transport
Mail(to, body, attachment_data) ==
    [to |-> to, body |-> body,
     attachment |-> IF Len(attachment_data) > 0 THEN attachment_data ELSE <<>>]

\* faulty variant: a failed STARTTLS is ignored and the function reports success
send_email_IgnoreTls(o, to, body, attachment_data) ==
    IF o = "ok"
    THEN [ok |-> TRUE, raised |-> FALSE, delivered |-> <<Mail(to, body, attachment_data)>>,
          errors |-> {}]
    ELSE [ok |-> o = "starttls_fails", raised |-> FALSE, delivered |-> <<>>,
          errors |-> {"Failed to send email"}]

\* faulty variant: the mail goes out without the attachment
send_email_NoAttachment(o, to, body, attachment_data) ==
    IF o = "ok"
    THEN [ok |-> TRUE, raised |-> FALSE, delivered |-> <<Mail(to, body, <<>>)>>,
          errors |-> {}]
    ELSE [ok |-> FALSE, raised |-> FALSE, delivered |-> <<>>,
          errors |-> {"Failed to send email"}]

\* send_email: one try block around build, connect, STARTTLS, login and
\* sendmail; every exception is caught, reported and turned into False
send_email(o, to, body, attachment_data) ==
    IF o = "ok"
    THEN [ok |-> TRUE, raised |-> FALSE, delivered |-> <<Mail(to, body, attachment_data)>>,
          errors |-> {}]
    ELSE [ok |-> FALSE, raised |-> FALSE, delivered |-> <<>>,
          errors |-> {"Failed to send email"}]


\* ---- the state of one run of the script
VARIABLES
    pc,                       \* position of the script run
    src,                      \* the price sheet the loading block found
    VM_RATE, STORAGE_RATE_PER_TB, BANDWIDTH_RATE_PER_MBPS,
    load_warnings,            \* what the loading block reported
    vms, storage, bandwidth, current_cost, contact,   \* the form
    validated,                \* <<>> or <<return value of validate_inputs>>
    errors,                   \* the "... is required." messages shown
    lekalink_cost, monthly_savings, percentage_savings,
    summary,                  \* <<>> or <<the results card>>
    logo,                     \* the logo file create_pdf found
    pdf_output,               \* <<>> or <<the rendered page>>
    download,                 \* <<>> or <<the page behind the download button>>
    smtp,                     \* what the mail transport did
    email_sent,               \* <<>> or <<return value of send_email>>
    outbox,                   \* <<>> or <<the mail the transport accepted>>
    email_body,               \* <<>> or <<the body composed for the sales team>>
    messages,                 \* warnings and success/failure messages shown
    log                       \* the steps of the button handler, in order

vars ==
    <<pc, src, VM_RATE, STORAGE_RATE_PER_TB, BANDWIDTH_RATE_PER_MBPS, load_warnings,
      vms, storage, bandwidth, current_cost, contact, validated, errors,
      lekalink_cost, monthly_savings, percentage_savings, summary, logo,
      pdf_output, download, smtp, email_sent, outbox, email_body, messages, log>>

rateVars == <<src, VM_RATE, STORAGE_RATE_PER_TB, BANDWIDTH_RATE_PER_MBPS, load_warnings>>
formVars == <<vms, storage, bandwidth, current_cost, contact>>
quoteVars == <<lekalink_cost, monthly_savings, percentage_savings>>

NoSource == [status |-> "unread", vm_row |-> MissingRow, storage_row |-> MissingRow]

\* the top of the script: the rates start at their defaults, nothing is
\* entered, nothing is shown
Init ==
    /\ pc = "start"
    /\ src = NoSource
    /\ VM_RATE = DEFAULT_VM_RATE
    /\ STORAGE_RATE_PER_TB = DEFAULT_STORAGE_RATE_PER_TB
    /\ BANDWIDTH_RATE_PER_MBPS = DEFAULT_BANDWIDTH_RATE_PER_MBPS
    /\ load_warnings = {}
    /\ vms = 0 /\ storage = 0 /\ bandwidth = 0 /\ current_cost = 0
    /\ contact = NoContact
    /\ validated = <<>>
    /\ errors = {}
    /\ lekalink_cost = 0 /\ monthly_savings = 0 /\ percentage_savings = Number(0)
    /\ summary = <<>>
    /\ logo = "unseen"
    /\ pdf_output = <<>>
    /\ download = <<>>
    /\ smtp = "unused"
    /\ email_sent = <<>>
    /\ outbox = <<>>
    /\ email_body = <<>>
    /\ messages = {}
    /\ log = <<>>

\* the price sheet loading block
LoadRates ==
    /\ pc = "start"
    /\ \E s \in RateSources :
        /\ src' = s
        /\ VM_RATE' = LoadVmRate(s)
        /\ STORAGE_RATE_PER_TB' = LoadStorageRate(s)
        /\ load_warnings' = LoadWarnings(s)
    /\ pc' = "form"
    /\ UNCHANGED <<BANDWIDTH_RATE_PER_MBPS, formVars, validated, errors, quoteVars, summary,
                   logo, pdf_output, download, smtp, email_sent, outbox, email_body, messages, log>>

\* the user fills in the form and presses "Save me Money"
ClickButton ==
    /\ pc = "form"
    /\ vms' \in VmsValues
    /\ storage' \in StorageValues
    /\ bandwidth' \in BandwidthValues
    /\ current_cost' \in CurrentCostValues
    /\ contact' \in Contacts
    /\ pc' = "validate"
    /\ UNCHANGED <<rateVars, validated, errors, quoteVars, summary, logo, pdf_output,
                   download, smtp, email_sent, outbox, email_body, messages, log>>

\* if validate_inputs(...): ... else: pass
Validate ==
    /\ pc = "validate"
    /\ LET r == validate_inputs(contact) IN
        /\ validated' = <<r.ok>>
        /\ errors' = r.errors
        /\ pc' = IF r.ok THEN "compute" ELSE "done"
    /\ log' = Append(log, "validate")
    /\ UNCHANGED <<rateVars, formVars, quoteVars, summary, logo, pdf_output, download,
                   smtp, email_sent, outbox, email_body, messages>>

\* the calculation logic
Compute ==
    /\ pc = "compute"
    /\ LET lc == LekalinkCost(vms, storage, bandwidth,
                              VM_RATE, STORAGE_RATE_PER_TB, BANDWIDTH_RATE_PER_MBPS)
           ms == MonthlySavings(current_cost, lc)
           pct == PercentageSavings(ms, current_cost)
       IN  /\ lekalink_cost' = lc
           /\ monthly_savings' = ms
           /\ IF IsZeroDivisionError(pct)
              THEN /\ percentage_savings' = percentage_savings
                   /\ messages' = messages \cup {"ZeroDivisionError"}
                   /\ pc' = "crashed"
              ELSE /\ percentage_savings' = pct
                   /\ messages' = messages
                   /\ pc' = "summary"
    /\ log' = Append(log, "compute")
    /\ UNCHANGED <<rateVars, formVars, validated, errors, summary, logo, pdf_output,
                   download, smtp, email_sent, outbox, email_body>>

\* the results card
ShowSummary ==
    /\ pc = "summary"
    /\ summary' = <<Summary(lekalink_cost, monthly_savings, percentage_savings)>>
    /\ pc' = "render"
    /\ log' = Append(log, "summary")
    /\ UNCHANGED <<rateVars, formVars, validated, errors, quoteVars, logo, pdf_output,
                   download, smtp, email_sent, outbox, email_body, messages>>

\* the dictionary handed to create_pdf
QuoteData ==
    [company_name |-> contact.company_name, contact_name |-> contact.contact_name,
     job_title |-> contact.job_title, email |-> contact.email, phone |-> contact.phone,
     vms |-> vms, storage |-> storage, bandwidth |-> bandwidth,
     current_cost |-> current_cost, lekalink_cost |-> lekalink_cost,
     monthly_savings |-> monthly_savings, percentage_savings |-> percentage_savings,
     vm_rate |-> VM_RATE, storage_rate_per_tb |-> STORAGE_RATE_PER_TB,
     bandwidth_rate_per_mbps |-> BANDWIDTH_RATE_PER_MBPS]

\* pdf_output = create_pdf(quote_data); an exception ends the run
RenderPdf ==
    /\ pc = "render"
    /\ \E l \in LogoStates :
        LET r == create_pdf(QuoteData, l) IN
            /\ logo' = l
            /\ pdf_output' = r.pdf
            /\ messages' = messages \cup r.warnings
                              \cup (IF r.raised THEN {"UnboundLocalError"} ELSE {})
            /\ pc' = IF r.raised THEN "crashed" ELSE "download"
    /\ log' = Append(log, "render")
    /\ UNCHANGED <<rateVars, formVars, validated, errors, quoteVars, summary, download,
                   smtp, email_sent, outbox, email_body>>

\* st.download_button(data=pdf_output)
OfferDownload ==
    /\ pc = "download"
    /\ download' = pdf_output
    /\ pc' = "send"
    /\ log' = Append(log, "download")
    /\ UNCHANGED <<rateVars, formVars, validated, errors, quoteVars, summary, logo,
                   pdf_output, smtp, email_sent, outbox, email_body, messages>>

\* send_email(sales_email, subject, body, pdf_output, file name)
SendEmail ==
    /\ pc = "send"
    /\ \E o \in SmtpOutcomes :
        LET body == EmailBody(contact, current_cost, lekalink_cost, monthly_savings,
                              percentage_savings)
            r == send_email(o, SALES_EMAIL, body, pdf_output)
        IN  /\ smtp' = o
            /\ outbox' = r.delivered
            /\ email_body' = <<body>>
            /\ email_sent' = IF r.raised THEN <<>> ELSE <<r.ok>>
            /\ messages' = messages \cup (IF r.raised THEN {"SMTPException"} ELSE r.errors)
            /\ pc' = IF r.raised THEN "crashed" ELSE "report"
    /\ log' = Append(log, "send")
    /\ UNCHANGED <<rateVars, formVars, validated, errors, quoteVars, summary, logo,
                   pdf_output, download>>

\* st.success(...) if send_email returned True, st.error(...) otherwise
ReportSend ==
    /\ pc = "report"
    /\ messages' = messages \cup {IF email_sent[1] THEN "Quote generated and sent"
                                  ELSE "Failed to send the quote"}
    /\ pc' = "done"
    /\ UNCHANGED <<rateVars, formVars, validated, errors, quoteVars, summary, logo,
                   pdf_output, download, smtp, email_sent, outbox, email_body, log>>

\* the next interaction runs the script again from the top; the values the
\* widgets keep are entered anew by ClickButton
Rerun ==
    /\ pc \in {"done", "crashed"}
    /\ pc' = "start"
    /\ src' = NoSource
    /\ VM_RATE' = DEFAULT_VM_RATE
    /\ STORAGE_RATE_PER_TB' = DEFAULT_STORAGE_RATE_PER_TB
    /\ BANDWIDTH_RATE_PER_MBPS' = DEFAULT_BANDWIDTH_RATE_PER_MBPS
    /\ load_warnings' = {}
    /\ vms' = 0 /\ storage' = 0 /\ bandwidth' = 0 /\ current_cost' = 0
    /\ contact' = NoContact
    /\ validated' = <<>>
    /\ errors' = {}
    /\ lekalink_cost' = 0 /\ monthly_savings' = 0 /\ percentage_savings' = Number(0)
    /\ summary' = <<>>
    /\ logo' = "unseen"
    /\ pdf_output' = <<>>
    /\ download' = <<>>
    /\ smtp' = "unused"
    /\ email_sent' = <<>>
    /\ outbox' = <<>>
    /\ email_body' = <<>>
    /\ messages' = {}
    /\ log' = <<>>

Next ==
    \/ LoadRates
    \/ ClickButton
    \/ Validate
    \/ Compute
    \/ ShowSummary
    \/ RenderPdf
    \/ OfferDownload
    \/ SendEmail
    \/ ReportSend
    \/ Rerun

Spec == Init /\ [][Next]_vars

TypeOK ==
    /\ pc \in {"start", "form", "validate", "compute", "summary", "render", "download",
               "send", "report", "done", "crashed"}
    /\ src \in RateSources \cup {NoSource}
    /\ contact \in Contacts
    /\ vms \in VmsValues /\ storage \in StorageValues
    /\ bandwidth \in BandwidthValues /\ current_cost \in CurrentCostValues
    /\ logo \in LogoStates \cup {"unseen"}
    /\ smtp \in SmtpOutcomes \cup {"unused"}
    /\ Len(validated) <= 1 /\ Len(summary) <= 1 /\ Len(pdf_output) <= 1
    /\ Len(download) <= 1 /\ Len(email_sent) <= 1 /\ Len(outbox) <= 1
    /\ Len(email_body) <= 1


\* ---- vocabulary of the properties
Steps == <<"validate", "compute", "summary", "render", "download", "send">>
Did(step) == \E i \in 1..Len(log) : log[i] = step
Loaded == pc # "start"
Submitted == pc \notin {"start", "form"}
EmptyFields == {f \in FieldNames : contact[f] = ""}
FieldOrder == <<"company_name", "contact_name", "job_title", "email", "phone">>
IsFirstEmpty(f) ==
    \E i \in 1..Len(FieldOrder) :
        /\ FieldOrder[i] = f
        /\ contact[f] = ""
        /\ \A j \in 1..(i - 1) : contact[FieldOrder[j]] # ""
NothingComputed ==
    /\ ~Did("compute") /\ ~Did("summary") /\ ~Did("render") /\ ~Did("download") /\ ~Did("send")
    /\ summary = <<>> /\ logo = "unseen" /\ pdf_output = <<>> /\ download = <<>>
    /\ smtp = "unused" /\ email_sent = <<>> /\ outbox = <<>>

\* C1: once a validated submission is computed with non-negative rates, the
\* estimated cost is exactly vms*VM_RATE + storage*STORAGE_RATE_PER_TB +
\* bandwidth*BANDWIDTH_RATE_PER_MBPS with the rates this run loaded, and the
\* monthly savings are the current cost minus that estimate.
C1_CostIsWeightedSum ==
    (Did("compute") /\ VM_RATE >= 0 /\ STORAGE_RATE_PER_TB >= 0 /\ BANDWIDTH_RATE_PER_MBPS >= 0)
    => /\ validated = <<TRUE>>
       /\ lekalink_cost = vms * VM_RATE + storage * STORAGE_RATE_PER_TB
                          + bandwidth * BANDWIDTH_RATE_PER_MBPS
       /\ monthly_savings = current_cost - lekalink_cost

\* the worked example: 2 VMs, 1 TB, 10 Mbps at the default rates against R3000
C1_Witness ==
    /\ Did("compute")
    /\ vms = 2 /\ storage = 1 /\ bandwidth = 10 /\ current_cost = 300000
    /\ VM_RATE = 86435 /\ STORAGE_RATE_PER_TB = 87040 /\ BANDWIDTH_RATE_PER_MBPS = 750
    /\ lekalink_cost = 267410
    /\ monthly_savings = 32590

\* C2: with a current monthly cost of 0 the computation raises no division
\* error, the percentage savings are 0 whatever the estimate, and the monthly
\* savings are minus the estimated cost.
C2_ZeroCurrentCost ==
    (Did("compute") /\ current_cost = 0)
    => /\ ~(pc = "crashed" /\ log[Len(log)] = "compute")
       /\ "ZeroDivisionError" \notin messages
       /\ ~IsZeroDivisionError(percentage_savings)
       /\ percentage_savings.num = 0
       /\ monthly_savings = 0 - lekalink_cost

C2_Witness ==
    /\ Did("compute") /\ current_cost = 0 /\ lekalink_cost > 0
    /\ percentage_savings.num = 0 /\ monthly_savings < 0

\* C3 as stated: for every computed quote the sign of the monthly savings is
\* the sign of current cost minus estimate and the sign of the percentage is
\* the sign of the monthly savings, a current cost of 0 included.
C3_SignsAlwaysAgree ==
    Did("compute")
    => /\ Sign(monthly_savings) = Sign(current_cost - lekalink_cost)
       /\ FracSign(percentage_savings) = Sign(monthly_savings)

\* C3 as amended: the sign of the monthly savings is always the sign of
\* current cost minus estimate; the percentage has that sign whenever the
\* current cost is positive, and is 0 when the current cost is 0.
C3_SignsAgreeForPositiveCost ==
    Did("compute")
    => /\ Sign(monthly_savings) = Sign(current_cost - lekalink_cost)
       /\ percentage_savings.den > 0
       /\ current_cost > 0 => FracSign(percentage_savings) = Sign(monthly_savings)
       /\ current_cost = 0 => FracSign(percentage_savings) = 0

C3_Witness ==
    /\ Did("compute") /\ current_cost > 0
    /\ monthly_savings < 0 /\ percentage_savings.num < 0

\* C4: when exactly one contact field is empty at submission, validation
\* fails, that field and no other is reported as required, and nothing is
\* computed, rendered or sent.
C4_SingleMissingField ==
    \A f \in FieldNames :
        (Submitted /\ EmptyFields = {f})
        => /\ NothingComputed
           /\ pc \in {"validate", "done"}
           /\ pc = "done" => /\ validated = <<FALSE>>
                             /\ errors = {RequiredMessage(f)}

C4_Witness ==
    /\ pc = "done" /\ EmptyFields = {"phone"}
    /\ validated = <<FALSE>> /\ errors = {"Phone Number is required."}

\* C5 as stated: when two or more contact fields are empty, each empty field
\* is reported in that submission, and computation stays blocked.
C5_EveryMissingFieldReported ==
    (Did("validate") /\ Cardinality(EmptyFields) >= 2)
    => /\ errors = {RequiredMessage(f) : f \in EmptyFields}
       /\ NothingComputed

\* C5 as amended: when two or more contact fields are empty, only the first
\* empty one (in the order company, contact name, job title, email, phone) is
\* reported in that submission; nothing is computed unless all five are
\* present.
C5_FirstMissingFieldReported ==
    /\ (Did("validate") /\ Cardinality(EmptyFields) >= 2)
       => /\ validated = <<FALSE>>
          /\ \E f \in FieldNames : IsFirstEmpty(f) /\ errors = {RequiredMessage(f)}
          /\ NothingComputed
    /\ (Submitted /\ EmptyFields # {}) => NothingComputed

C5_Witness ==
    /\ pc = "done" /\ EmptyFields = {"job_title", "phone"}
    /\ errors = {"Job Title is required."}

\* C6: once the sheet is read, the VM rate and the storage rate fall back
\* independently: a rate whose row is missing or non-numeric is at its
\* default, a rate whose row has a number is that number (the storage rate
\* times 1024), whatever the state of the other row.
C6_IndependentFallback ==
    (Loaded /\ src.status = "ok")
    => /\ VM_RATE = IF src.vm_row.kind = "num" THEN src.vm_row.val ELSE 86435
       /\ STORAGE_RATE_PER_TB = IF src.storage_row.kind = "num"
                                THEN src.storage_row.val * 1024 ELSE 87040

C6_Witness ==
    /\ Loaded /\ src.status = "ok"
    /\ src.vm_row.kind = "missing" /\ src.storage_row = Cell(2)
    /\ VM_RATE = 86435 /\ STORAGE_RATE_PER_TB = 2048

\* C7: whatever the state of the logo file, create_pdf completes and returns
\* the PDF, so the run goes on to the download button and the e-mail.
C7_RenderNeverFails ==
    Did("render") => (pc # "crashed" /\ Len(pdf_output) = 1)

\* C8: when a step of send_email fails, it returns False and does not raise,
\* the failure message is shown and never the success message, the download
\* was already offered, and the next submission can start; the success
\* message is shown only after send_email returned True.
C8_SendFailureIsContained ==
    /\ (smtp \notin {"unused", "ok"})
       => /\ pc \in {"report", "done"}
          /\ email_sent = <<FALSE>>
          /\ outbox = <<>>
          /\ "Failed to send email" \in messages
          /\ "Quote generated and sent" \notin messages
          /\ Did("download") /\ Len(download) = 1 /\ download = pdf_output
          /\ pc = "done" => ("Failed to send the quote" \in messages /\ ENABLED Rerun)
    /\ "Quote generated and sent" \in messages => email_sent = <<TRUE>>

C8_Witness ==
    /\ pc = "done" /\ smtp = "starttls_fails" /\ email_sent = <<FALSE>>
    /\ "Failed to send the quote" \in messages /\ Len(download) = 1

\* C9: after loading, whatever the price sheet holds, the three rates are
\* non-negative, and so is every estimated cost.
C9_RatesNonNegative ==
    Loaded
    => /\ VM_RATE >= 0 /\ STORAGE_RATE_PER_TB >= 0 /\ BANDWIDTH_RATE_PER_MBPS >= 0
       /\ Did("compute") => lekalink_cost >= 0

\* C10: the steps of a submission happen in the order validate, compute,
\* summary, render, download, send, each at most once; the mail is attempted
\* only after a PDF was rendered, and its attachment is that PDF, drawn from
\* this submission's result and the rates of the cost formula; a submission
\* that fails validation renders, offers and sends nothing.
C10_PipelineOrder ==
    /\ Len(log) <= Len(Steps)
    /\ \A i \in 1..Len(log) : log[i] = Steps[i]
    /\ (logo # "unseen") = Did("render")
    /\ (smtp # "unused") = Did("send")
    /\ (download # <<>>) => Did("download")
    /\ Did("send")
       => /\ validated = <<TRUE>>
          /\ Len(pdf_output) = 1
          /\ download = pdf_output
          /\ pdf_output[1].total = lekalink_cost
          /\ pdf_output[1].vm_line = vms * VM_RATE
          /\ pdf_output[1].storage_line = storage * STORAGE_RATE_PER_TB
          /\ pdf_output[1].bandwidth_line = bandwidth * BANDWIDTH_RATE_PER_MBPS
          /\ pdf_output[1].total = pdf_output[1].vm_line + pdf_output[1].storage_line
                                   + pdf_output[1].bandwidth_line
          /\ pdf_output[1].company_name = contact.company_name
          /\ outbox # <<>> => outbox[1].attachment = pdf_output
    /\ validated = <<FALSE>> => (log = <<"validate">> /\ NothingComputed)

C10_Witness ==
    /\ pc = "done" /\ log = Steps /\ smtp = "ok"
    /\ Len(outbox) = 1 /\ outbox[1].attachment = pdf_output /\ Len(pdf_output) = 1


\* the wording a consumer of the quote shows, if it has shown anything
Shown(x) == IF x = <<>> THEN {} ELSE {x[1]}
Consumers == Shown(summary) \cup Shown(pdf_output) \cup Shown(email_body)

\* C11: the results card, the savings block of the PDF and the e-mail body
\* all choose their wording by the sign of monthly_savings alone and agree:
\* savings exactly when monthly_savings >= 0 (zero included), increase
\* exactly when it is negative, and under the increase wording the amount
\* -monthly_savings and the percentage -percentage_savings are non-negative.
C11_ConsumersAgreeOnSign ==
    /\ \A x \in Consumers :
        /\ (x.framing = "savings") = (monthly_savings >= 0)
        /\ (x.framing = "increase") = (monthly_savings < 0)
        /\ x.framing = "savings"
           => (x.amount = monthly_savings /\ x.percentage = percentage_savings)
        /\ x.framing = "increase"
           => /\ x.amount = 0 - monthly_savings
              /\ x.amount >= 0
              /\ x.percentage.num = 0 - percentage_savings.num
              /\ x.percentage.den > 0
              /\ x.percentage.num >= 0
    /\ \A x, y \in Consumers : x.framing = y.framing
    /\ Did("summary") => summary # <<>>
    /\ Did("send") => (pdf_output # <<>> /\ email_body # <<>>)

\* all three consumers under the increase wording, with no current cost, so
\* that the percentage shown is 0 while the amount is positive
C11_Witness ==
    /\ pc = "done" /\ monthly_savings < 0 /\ current_cost = 0
    /\ summary # <<>> /\ pdf_output # <<>> /\ email_body # <<>>
    /\ summary[1].framing = "increase"
    /\ pdf_output[1].framing = "increase"
    /\ email_body[1].framing = "increase"
    /\ email_body[1].amount > 0 /\ email_body[1].percentage.num = 0

====
